---- MODULE Spec2Model ----
(***************************************************************************)
(* EV charger emulator: the per-charger state machine and telemetry        *)
(* generator (src/src/core/Charger.ts), the fleet coordinator              *)
(* (src/src/core/EmulatorManager.ts) and the session ledger                *)
(* (src/src/db/database.ts).                                               *)
(*                                                                         *)
(* Units.  Time is counted in units of 5000 ms (the heartbeat scan         *)
(* period, which divides every other period of the code).  Timestamps are  *)
(* kept relative to the current instant: Date.now() reads Now = 0, a       *)
(* stored timestamp is <= 0, and AdvanceTime ages every stored timestamp   *)
(* by one unit.  The code only ever reads a timestamp in a difference      *)
(* Date.now() - ts compared with a constant, so a timestamp stops ageing   *)
(* one unit past the largest constant it is compared with.                 *)
(* Voltage is in 1/100 V, current in 1/100 A (two decimals, as toFixed(2) *)
(* leaves them), power in 1/10000 kW (toFixed(4)), energy in 1/1000000 kWh *)
(* (toFixed(6)).                                                           *)
(***************************************************************************)
EXTENDS Integers, Sequences, FiniteSets, Bags, TLC

VARIABLES
    chargers,          \* EmulatorManager.chargers: id -> Charger fields
    telemetryWrapper,  \* EmulatorManager.telemetryWrapper: Null or Some(registration number)
    heartbeatTimer,    \* time until the manager's setInterval(checkHeartbeatStatus) fires
    ledger,            \* table sessions: id -> row
    calls,             \* startSession calls suspended at an await (a bag)
    stops,             \* stopSession finalizations suspended at an await (a bag)
    hist,              \* observation only: per charger, when its forced-idle session was bound
    last               \* observation only: what the step just taken returned or emitted

vars == <<chargers, telemetryWrapper, heartbeatTimer, ledger, calls, stops, hist, last>>

----
\* Inputs and bounds

ChargerIds == {"C1", "C2"}
SessionIds == {"S1", "S2"}

\* at most this many startSession calls are suspended at once
MaxCalls == 2
\* at most this many stop finalizations are in flight at once
MaxStops == 1
\* at most this many setTelemetryHandler registrations
MaxRegistrations == 2
\* bind times (observation) stop ageing at this age
MaxAge == 9
\* a charger's meter is followed up to this reading (1/1000000 kWh)
MaxMeter == 25000

Null == << >>
Some(x) == <<x>>
Min(a, b) == IF a < b THEN a ELSE b
Max(a, b) == IF a > b THEN a ELSE b

----
\* Program constants

Now == 0
intervalMs == 2
IDLE_TIMEOUT_MS == 4
IDLE_CURRENT_THRESHOLD == 10
IDLE_POWER_THRESHOLD == 500
HEARTBEAT_TIMEOUT == 12
HeartbeatScanMs == 1
GRID_LIMIT == 100000

Statuses == {"AVAILABLE", "CHARGING", "FAULTY", "OFFLINE"}
Modes == {"SLOW", "NORMAL", "FAST"}

\* Math.random() draws: the ends of each range (and 25 A, which is 6 kW at 240 V)
Voltages == {22800, 24000}
ModeCurrents(mode) ==
    IF mode = "SLOW" THEN {1000, 1400}
    ELSE IF mode = "NORMAL" THEN {1500, 2200}
    ELSE {2300, 2500, 3200}
AllCurrents == UNION {ModeCurrents(m) : m \in Modes}
ThrottleLimits == {1000, 1500}

\* x / d rounded to the nearest integer, halves up (toFixed on a non-negative number)
RoundDiv(x, d) == (2 * x + d) \div (2 * d)

\* Timer jitter: a callback due at a nominal instant runs a few ms around it, so
\* a comparison Date.now() - ts > limit at nominal equality can go either way.
Exceeds(elapsed, limit, late) == elapsed > limit \/ (late /\ elapsed = limit)

Age(ts, floor) == Max(ts - 1, 0 - floor)

----
\* Charger

\* The constructor (lines 25-35) and the field initialisers. telemetryInterval is
\* the handle the object holds (Null, or the time until its callback is due);
\* activeIntervals counts the setInterval timers made for the object and not
\* cleared, which is what the event loop keeps firing.
NewCharger(id) ==
    [ id |-> id,
      status |-> "AVAILABLE",
      meterKWh |-> 0,
      currentSessionId |-> Null,
      currentLimit |-> Null,
      lastPower |-> 0,
      lastHeartbeat |-> Now,
      chargingMode |-> "NORMAL",
      telemetryInterval |-> Some(intervalMs),
      activeIntervals |-> 1,
      forceIdleMode |-> FALSE,
      idleStartTimestamp |-> Null,
      telemetryListeners |-> << >> ]

NoHist == [boundAt |-> Null, afterFire |-> FALSE, orphanIntervals |-> 0]

Quiet ==
    [ op |-> "-", id |-> "-", sid |-> Null, ret |-> "-", emitted |-> Null, delivered |-> << >> ]

EmptyMap == [x \in {} |-> Null]

Init ==
    /\ chargers = EmptyMap
    /\ telemetryWrapper = Null
    /\ heartbeatTimer = HeartbeatScanMs
    /\ ledger = EmptyMap
    /\ calls = EmptyBag
    /\ stops = EmptyBag
    /\ hist = [id \in ChargerIds |-> NoHist]
    /\ last = Quiet

----
\* Observation

\* hist[id].boundAt is the time a session was bound to charger id with
\* forceIdleMode on and the telemetry timer running, for as long as the session
\* has stayed bound and both have stayed so; Null otherwise.
BoundAtAfter(before, after, h) ==
    IF after.status # "CHARGING" \/ after.currentSessionId = Null
       \/ ~after.forceIdleMode \/ after.telemetryInterval = Null
    THEN Null
    ELSE IF before.status # "CHARGING" \/ before.currentSessionId # after.currentSessionId
    THEN Some(Now)
    ELSE h

\* hist[id].orphanIntervals: the interval timers still live on Charger objects
\* that deleteCharger removed from the registry under this id (DeleteCharger
\* sets it).
\* hist[id].afterFire: the latest tick of charger id was the one on which the
\* idle timeout fired; every step but a tick keeps it.
Observe ==
    hist' = [ id \in ChargerIds |->
                IF id \in DOMAIN chargers' /\ id \in DOMAIN chargers
                THEN [ boundAt |-> BoundAtAfter(chargers[id], chargers'[id], hist[id].boundAt),
                       afterFire |->
                           IF last'.op = "generateTelemetry" /\ last'.id = id
                           THEN last'.emitted = Null
                           ELSE hist[id].afterFire,
                       orphanIntervals |-> hist[id].orphanIntervals ]
                ELSE [NoHist EXCEPT !.orphanIntervals = hist[id].orphanIntervals] ]

\* a call returned ret to its caller
Returned(op, id, sid, ret) ==
    [ Quiet EXCEPT !.op = op, !.id = id, !.sid = sid, !.ret = ret ]

----
\* Charger.startSession and the ledger's insertSessionStart

\* Fault variant: startSession without its busy check.
StartRejected_Never(ch) == FALSE

\* line 206: the busy check made before anything is awaited
StartRejected(ch) == ch.status = "CHARGING"

\* lines 225-226: the continuation after the reservation has succeeded
StartSessionResume(ch, sessionId) ==
    [ ch EXCEPT !.status = "CHARGING", !.currentSessionId = Some(sessionId) ]

\* sessionExists: SELECT id FROM sessions WHERE id = ?
sessionExists(sessionId) == sessionId \in DOMAIN ledger

\* Fault variant: a table whose id column is not a key.
PrimaryKeyRejects_Never(sessionId) == FALSE

\* database.ts line 12, id TEXT PRIMARY KEY: the INSERT of a second row with
\* this id is rejected
PrimaryKeyRejects(sessionId) == sessionExists(sessionId)

\* Fault variant: a catch that turns every error into the SESSION_EXISTS result.
StartSessionCatch_Swallows(code) == "SESSION_EXISTS"

\* lines 215-222: the catch of startSession, on an error with this code property;
\* THROWN is the rejection of the promise the caller awaits
StartSessionCatch(code) ==
    IF code = "SESSION_EXISTS" THEN "SESSION_EXISTS" ELSE "THROWN"

\* Fault variant: insertSessionStart resolves without having written the row.
InsertRow_Lost(id, sessionId) == ledger

\* INSERT INTO sessions (id, chargerId, start_ts, status)
InsertRow(id, sessionId) ==
    [ s \in DOMAIN ledger \cup {sessionId} |->
        IF s = sessionId
        THEN [chargerId |-> id, status |-> "STARTED", stop_reason |-> Null]
        ELSE ledger[s] ]

StartSession(id, sessionId) ==
    /\ UNCHANGED <<telemetryWrapper, heartbeatTimer, ledger, stops>>
    /\ IF id \notin DOMAIN chargers
       THEN /\ last' = Returned("startSession", id, Some(sessionId), "NOT_FOUND")
            /\ UNCHANGED <<chargers, calls>>
       ELSE IF StartRejected(chargers[id])
       THEN /\ last' = Returned("startSession", id, Some(sessionId), "CHARGER_BUSY")
            /\ UNCHANGED <<chargers, calls>>
       ELSE /\ BagCardinality(calls) < MaxCalls
            /\ calls' = calls (+) SetToBag({[id |-> id, sid |-> sessionId, pc |-> "exists",
                                                  detached |-> FALSE]})
            /\ last' = Quiet
            /\ UNCHANGED chargers
    /\ Observe

\* the await of sessionExists(id) inside insertSessionStart resolves
DbSessionExists(call, ioError) ==
    /\ call.pc = "exists"
    /\ UNCHANGED <<chargers, telemetryWrapper, heartbeatTimer, ledger, stops>>
    /\ LET rest == calls (-) SetToBag({call})
       IN  IF ioError
           THEN /\ calls' = rest
                /\ last' = Returned("startSession", call.id, Some(call.sid),
                                    StartSessionCatch("SQLITE_IOERR"))
           ELSE IF sessionExists(call.sid)
           THEN /\ calls' = rest
                /\ last' = Returned("startSession", call.id, Some(call.sid),
                                    StartSessionCatch("SESSION_EXISTS"))
           ELSE /\ calls' = rest (+) SetToBag({[call EXCEPT !.pc = "insert"]})
                /\ last' = Quiet
    /\ Observe

\* the await of the INSERT resolves; on success startSession goes on to bind.
\* A detached call runs on a Charger object that deleteCharger has removed from
\* the registry: its assignments land on that object, not on the registry's.
DbInsert(call, ioError) ==
    /\ call.pc = "insert"
    /\ UNCHANGED <<telemetryWrapper, heartbeatTimer, stops>>
    /\ calls' = calls (-) SetToBag({call})
    /\ IF ioError \/ PrimaryKeyRejects(call.sid)
       THEN \* an I/O failure, or the PRIMARY KEY rejects the row: neither
            \* carries code SESSION_EXISTS
            /\ last' = Returned("startSession", call.id, Some(call.sid),
                                StartSessionCatch(IF ioError THEN "SQLITE_IOERR"
                                                  ELSE "SQLITE_CONSTRAINT"))
            /\ UNCHANGED <<chargers, ledger>>
       ELSE /\ ledger' = InsertRow(call.id, call.sid)
            /\ chargers' = IF call.detached THEN chargers
                           ELSE [chargers EXCEPT ![call.id] = StartSessionResume(@, call.sid)]
            /\ last' = Returned("startSession", call.id, Some(call.sid), "OK")
    /\ Observe

----
\* Charger.stopSession, injectFault, reset

\* the finalization of session sid with this reason, as stopSession issues it
Finalization(sid, reason) == [sid |-> sid, reason |-> reason]

\* lines 232-250: the charger after stopSession(reason)
StopSessionState(ch) ==
    IF ch.status = "CHARGING"
    THEN [ch EXCEPT !.status = "AVAILABLE", !.currentSessionId = Null]
    ELSE IF ch.status = "FAULTY"
    THEN [ch EXCEPT !.currentSessionId = Null, !.status = "AVAILABLE"]
    ELSE ch

\* lines 233, 245: the reason the finalization carries
UpdateReason(ch, reason) ==
    IF ch.status = "FAULTY" THEN "FAULT_RECOVERY" ELSE reason

\* Fault variant: the finalization guarded by the status instead of the session id.
StopSessionIssued_OnlyCharging(ch, reason) ==
    IF ch.status = "CHARGING" /\ ch.currentSessionId # Null
    THEN {Finalization(ch.currentSessionId[1], reason)}
    ELSE {}

\* lines 232, 251-255: the finalizations stopSession(reason) issues (none or one)
StopSessionIssued(ch, reason) ==
    IF ch.currentSessionId # Null
    THEN {Finalization(ch.currentSessionId[1], UpdateReason(ch, reason))}
    ELSE {}

Issue(issued) ==
    /\ BagCardinality(stops) + Cardinality(issued) <= MaxStops
    /\ stops' = stops (+) SetToBag(issued)

\* EmulatorManager.stopSession -> Charger.stopSession() with the default reason
StopSession(id) ==
    /\ UNCHANGED <<telemetryWrapper, heartbeatTimer, ledger, calls>>
    /\ IF id \notin DOMAIN chargers
       THEN /\ last' = Returned("stopSession", id, Null, "NOT_FOUND")
            /\ UNCHANGED <<chargers, stops>>
       ELSE LET ch == chargers[id]
                issued == StopSessionIssued(ch, "USER_STOP")
            IN  /\ Issue(issued)
                /\ chargers' = [chargers EXCEPT ![id] = StopSessionState(ch)]
                /\ last' = Quiet
    /\ Observe

\* Fault variant: injectFault that sets the status and nothing else.
InjectFaultState_KeepsSession(ch) == [ch EXCEPT !.status = "FAULTY"]

\* Fault variant: injectFault that never calls stopSession("FAULT").
InjectFaultIssued_None(ch) == {}

\* lines 286-294
InjectFaultState(ch) ==
    [ (IF ch.status = "CHARGING" THEN StopSessionState(ch) ELSE ch)
        EXCEPT !.status = "FAULTY", !.currentSessionId = Null ]

InjectFaultIssued(ch) ==
    IF ch.status = "CHARGING" THEN StopSessionIssued(ch, "FAULT") ELSE {}

InjectFault(id) ==
    /\ UNCHANGED <<telemetryWrapper, heartbeatTimer, ledger, calls>>
    /\ IF id \notin DOMAIN chargers
       THEN /\ last' = Returned("injectFault", id, Null, "NOT_FOUND")
            /\ UNCHANGED <<chargers, stops>>
       ELSE LET ch == chargers[id]
                issued == InjectFaultIssued(ch)
            IN  /\ Issue(issued)
                /\ chargers' = [chargers EXCEPT ![id] = InjectFaultState(ch)]
                /\ last' = Quiet
    /\ Observe

\* Fault variant: reset without its status test.
ResetState_AnyStatus(ch) == [ch EXCEPT !.status = "AVAILABLE", !.currentSessionId = Null]

\* lines 300-307
ResetState(ch) ==
    IF ch.status = "FAULTY"
    THEN [ch EXCEPT !.status = "AVAILABLE", !.currentSessionId = Null]
    ELSE ch

ResetCharger(id) ==
    /\ UNCHANGED <<telemetryWrapper, heartbeatTimer, ledger, calls, stops>>
    /\ IF id \notin DOMAIN chargers
       THEN /\ last' = Returned("reset", id, Null, "NOT_FOUND")
            /\ UNCHANGED chargers
       ELSE /\ chargers' = [chargers EXCEPT ![id] = ResetState(@)]
            /\ last' = Returned("reset", id, Null, "OK")
    /\ Observe

\* updateSessionStop: UPDATE sessions SET ... status = STOPPED, stop_reason = ? WHERE id = ?
UpdateRow(sessionId, stop_reason) ==
    [ s \in DOMAIN ledger |->
        IF s = sessionId
        THEN [ledger[s] EXCEPT !.status = "STOPPED", !.stop_reason = Some(stop_reason)]
        ELSE ledger[s] ]

\* The detached finalization of stopSession runs to its end (lines 252-283):
\* getSessionStartTime finds the row or the finalization is abandoned, then
\* updateSessionStop writes it; a failure of either is logged and swallowed.
\* The row's start_ts never changes once written, so nothing another step does
\* between the two awaits changes what is written; they resolve in one step.
DbFinalize(stop, ioError) ==
    /\ UNCHANGED <<chargers, telemetryWrapper, heartbeatTimer, calls>>
    /\ stops' = stops (-) SetToBag({stop})
    /\ ledger' = IF ioError \/ ~sessionExists(stop.sid)
                 THEN ledger
                 ELSE UpdateRow(stop.sid, stop.reason)
    /\ last' = Quiet
    /\ Observe

----
\* Telemetry

\* Fault variant: the throttle override applied before the status is looked at.
SimulatedCurrent_LimitFirst(ch, rnd) ==
    IF ch.currentLimit # Null THEN ch.currentLimit[1]
    ELSE IF ch.status = "CHARGING" /\ ~ch.forceIdleMode THEN rnd
    ELSE 0

\* lines 80-104: the simulated current; rnd is the randomBetween draw of the mode's range
SimulatedCurrent(ch, rnd) ==
    IF ch.status = "CHARGING" /\ ~ch.forceIdleMode
    THEN IF ch.currentLimit # Null THEN ch.currentLimit[1] ELSE rnd
    ELSE 0

\* line 106
PowerOf(voltage, current) == RoundDiv(voltage * current, 1000)

\* Fault variant: the tick's energy assigned to the meter instead of added.
Metered_Overwrites(meterKWh, power_kW) == RoundDiv(power_kW * intervalMs * 5, 36)

\* lines 110-111: meterKWh + power_kW * (intervalSeconds / 3600), to six decimals
Metered(meterKWh, power_kW) == RoundDiv(meterKWh * 36 + power_kW * intervalMs * 5, 36)

\* line 118
IsIdle(current, power_kW) ==
    current < IDLE_CURRENT_THRESHOLD /\ power_kW < IDLE_POWER_THRESHOLD

\* line 122: the idle timeout fires on this tick
IdleTimeoutFires(ch, current, power_kW, late) ==
    /\ ch.status = "CHARGING"
    /\ IsIdle(current, power_kW)
    /\ ch.idleStartTimestamp # Null
    /\ Exceeds(Now - ch.idleStartTimestamp[1], IDLE_TIMEOUT_MS, late)

\* Fault variant: every idle tick restarts the idle timer.
IdleStartAfter_Restarts(ch, current, power_kW, late) ==
    IF ch.status # "CHARGING" THEN ch.idleStartTimestamp
    ELSE IF ~IsIdle(current, power_kW) THEN Null
    ELSE Some(Now)

\* Fault variant: the else branch of line 131 is missing.
IdleStartAfter_KeepsOnActive(ch, current, power_kW, late) ==
    IF ch.status # "CHARGING" \/ ~IsIdle(current, power_kW) THEN ch.idleStartTimestamp
    ELSE IF ch.idleStartTimestamp = Null THEN Some(Now)
    ELSE IF IdleTimeoutFires(ch, current, power_kW, late) THEN Null
    ELSE ch.idleStartTimestamp

\* lines 117-133: idleStartTimestamp after the tick's idle detection
IdleStartAfter(ch, current, power_kW, late) ==
    IF ch.status # "CHARGING" THEN ch.idleStartTimestamp
    ELSE IF ~IsIdle(current, power_kW) THEN Null
    ELSE IF ch.idleStartTimestamp = Null THEN Some(Now)
    ELSE IF IdleTimeoutFires(ch, current, power_kW, late) THEN Null
    ELSE ch.idleStartTimestamp

\* lines 171-182
ThrottleCurrent(ch, rnd) == [ch EXCEPT !.currentLimit = Some(rnd)]

Unthrottle(ch) ==
    IF ch.currentLimit # Null THEN [ch EXCEPT !.currentLimit = Null] ELSE ch

\* Fault variant: getTotalPower without its status test.
RECURSIVE SumPower_AnyStatus(_, _)
SumPower_AnyStatus(chs, ids) ==
    IF ids = {} THEN 0
    ELSE LET id == CHOOSE i \in ids : TRUE
         IN  chs[id].lastPower + SumPower_AnyStatus(chs, ids \ {id})

\* EmulatorManager.getTotalPower
RECURSIVE SumPower(_, _)
SumPower(chs, ids) ==
    IF ids = {} THEN 0
    ELSE LET id == CHOOSE i \in ids : TRUE
         IN  (IF chs[id].status = "CHARGING" THEN chs[id].lastPower ELSE 0)
             + SumPower(chs, ids \ {id})

getTotalPower(chs) == SumPower(chs, DOMAIN chs)

\* EmulatorManager.applyThrottling; rnd[id] is the draw throttleCurrent makes for id
applyThrottling(chs, rnd) ==
    IF getTotalPower(chs) <= GRID_LIMIT
    THEN [ id \in DOMAIN chs |->
             IF chs[id].status = "CHARGING" THEN Unthrottle(chs[id]) ELSE chs[id] ]
    ELSE [ id \in DOMAIN chs |->
             IF chs[id].status = "CHARGING" THEN ThrottleCurrent(chs[id], rnd[id]) ELSE chs[id] ]

\* lines 148-159: every listener is a wrapper of setTelemetryHandler, and each one
\* runs applyThrottling after its handler; the last run's draws are the ones left
NotifyListeners(chs, id, rnd) ==
    IF Len(chs[id].telemetryListeners) > 0 THEN applyThrottling(chs, rnd) ELSE chs

\* lines 184-187
SendHeartbeat(ch) == [ch EXCEPT !.lastHeartbeat = Now]

\* a tick delivered the record with this status to these listeners, or (Null) none
Emitted(id, status, listeners) ==
    [ Quiet EXCEPT !.op = "generateTelemetry", !.id = id,
                   !.emitted = status, !.delivered = listeners ]

\* the setInterval callback of a charger: generateTelemetry(intervalMs / 1000)
GenerateTelemetry(id, voltage, rndCurrent, late, rndLimit) ==
    /\ id \in DOMAIN chargers
    /\ chargers[id].telemetryInterval = Some(0)
    /\ rndCurrent \in ModeCurrents(chargers[id].chargingMode)
    /\ UNCHANGED <<telemetryWrapper, heartbeatTimer, ledger, calls>>
    /\ LET ch == chargers[id]
           current == SimulatedCurrent(ch, rndCurrent)
           power_kW == PowerOf(voltage, current)
           metered == [ ch EXCEPT !.meterKWh = Metered(@, power_kW),
                                  !.lastPower = power_kW,
                                  !.telemetryInterval = Some(intervalMs),
                                  !.idleStartTimestamp =
                                      IdleStartAfter(ch, current, power_kW, late) ]
       IN  /\ metered.meterKWh <= MaxMeter
           /\ IF IdleTimeoutFires(ch, current, power_kW, late)
              THEN LET issued == StopSessionIssued(metered, "IDLE_TIMEOUT")
                   IN  /\ Issue(issued)
                       /\ chargers' = [chargers EXCEPT ![id] = StopSessionState(metered)]
                       /\ last' = Emitted(id, Null, << >>)
              ELSE LET notified == NotifyListeners([chargers EXCEPT ![id] = metered], id, rndLimit)
                   IN  /\ chargers' = [notified EXCEPT ![id] = SendHeartbeat(@)]
                       /\ last' = Emitted(id, Some(metered.status), ch.telemetryListeners)
                       /\ UNCHANGED stops
    /\ Observe

\* lines 53-59
PauseTelemetryState(ch) ==
    IF ch.telemetryInterval # Null
    THEN [ch EXCEPT !.telemetryInterval = Null, !.activeIntervals = @ - 1]
    ELSE ch

\* Fault variant: resumeTelemetry without its test of the handle.
ResumeTelemetryState_Unchecked(ch) ==
    [ch EXCEPT !.telemetryInterval = Some(intervalMs), !.activeIntervals = @ + 1]

\* lines 61-69
ResumeTelemetryState(ch) ==
    IF ch.telemetryInterval = Null
    THEN [ch EXCEPT !.telemetryInterval = Some(intervalMs), !.activeIntervals = @ + 1]
    ELSE ch

\* lines 37-44
StartTelemetryState(ch) ==
    IF ch.telemetryInterval # Null THEN ch
    ELSE [ch EXCEPT !.telemetryInterval = Some(intervalMs), !.activeIntervals = @ + 1]

\* Fault variant: stopTelemetry that forgets the handle and leaves the timer.
StopTelemetryState_KeepsTimer(ch) == [ch EXCEPT !.telemetryInterval = Null]

\* lines 46-51
StopTelemetryState(ch) ==
    IF ch.telemetryInterval = Null THEN ch
    ELSE [ch EXCEPT !.telemetryInterval = Null, !.activeIntervals = @ - 1]

ToUpperCase(mode) ==
    IF mode = "slow" THEN "SLOW"
    ELSE IF mode = "fast" THEN "FAST"
    ELSE IF mode = "turbo" THEN "TURBO"
    ELSE mode

ModeInputs == {"slow", "NORMAL", "fast", "turbo"}

\* lines 194-202
SetModeState(ch, mode) ==
    IF ToUpperCase(mode) \in Modes THEN [ch EXCEPT !.chargingMode = ToUpperCase(mode)] ELSE ch

\* lines 189-192
SetForceIdleState(ch, flag) == [ch EXCEPT !.forceIdleMode = flag]

\* a manager command that looks the charger up and applies a synchronous setter
Command(op, id, after) ==
    /\ UNCHANGED <<telemetryWrapper, heartbeatTimer, ledger, calls, stops>>
    /\ IF id \notin DOMAIN chargers
       THEN /\ last' = Returned(op, id, Null, "NOT_FOUND")
            /\ UNCHANGED chargers
       ELSE /\ chargers' = [chargers EXCEPT ![id] = after]
            /\ last' = Quiet
    /\ Observe

PauseTelemetry(id) ==
    Command("pauseTelemetry", id, PauseTelemetryState(chargers[id]))

ResumeTelemetry(id) ==
    Command("resumeTelemetry", id, ResumeTelemetryState(chargers[id]))

SetMode(id, mode) ==
    Command("setMode", id, SetModeState(chargers[id], mode))

ForceIdle(id, flag) ==
    Command("forceIdle", id, SetForceIdleState(chargers[id], flag))

\* getCharger(id) and a call of the object's public startTelemetry / stopTelemetry
\* (the CLI's exit command stops the timer this way, part_001 lines 99-102)
StartTelemetry(id) ==
    Command("startTelemetry", id, StartTelemetryState(chargers[id]))

StopTelemetry(id) ==
    Command("stopTelemetry", id, StopTelemetryState(chargers[id]))

----
\* EmulatorManager

\* Charger.onTelemetry
OnTelemetry(ch, wrapper) ==
    [ch EXCEPT !.telemetryListeners = Append(@, wrapper)]

\* lines 24-34: the object spawnCharger makes for an id that is not in the registry
SpawnedCharger(id) ==
    IF telemetryWrapper # Null
    THEN OnTelemetry(NewCharger(id), telemetryWrapper[1])
    ELSE NewCharger(id)

\* Fault variant: spawnCharger without its lookup, making a new object every time.
SpawnRegistry_Replaces(id) ==
    [ i \in DOMAIN chargers \cup {id} |-> IF i # id THEN chargers[i] ELSE SpawnedCharger(id) ]

\* lines 22-25, 35-38: the registry after spawnCharger(id)
SpawnRegistry(id) ==
    IF id \in DOMAIN chargers THEN chargers
    ELSE [ i \in DOMAIN chargers \cup {id} |->
             IF i # id THEN chargers[i] ELSE SpawnedCharger(id) ]

\* lines 21-39; what is returned is the charger, told apart here by the line logged
SpawnCharger(id) ==
    /\ UNCHANGED <<telemetryWrapper, heartbeatTimer, ledger, calls, stops>>
    /\ chargers' = SpawnRegistry(id)
    /\ last' = Returned("spawnCharger", id, Null,
                        IF id \in DOMAIN chargers THEN "EXISTS" ELSE "SPAWNED")
    /\ Observe

\* the suspended startSession calls once charger id has left the registry: those
\* running on its object go on running on it
Detached(call, id) ==
    IF call.id = id THEN [call EXCEPT !.detached = TRUE] ELSE call

DetachCalls(id) ==
    [ call \in {Detached(c, id) : c \in BagToSet(calls)} |->
        CopiesIn(call, calls)
        + (IF call.id = id /\ call.detached
           THEN CopiesIn([call EXCEPT !.detached = FALSE], calls)
           ELSE 0) ]

\* lines 179-192
DeleteCharger(id) ==
    /\ UNCHANGED <<telemetryWrapper, heartbeatTimer, ledger, stops>>
    /\ IF id \notin DOMAIN chargers
       THEN /\ last' = Returned("deleteCharger", id, Null, "FALSE")
            /\ UNCHANGED <<chargers, calls>>
            /\ Observe
       ELSE LET removed == StopTelemetryState(chargers[id])
            IN  /\ chargers' = [i \in DOMAIN chargers \ {id} |-> chargers[i]]
                /\ calls' = DetachCalls(id)
                /\ last' = Returned("deleteCharger", id, Null, "TRUE")
                /\ hist' = [ hist EXCEPT
                               ![id] = [ NoHist EXCEPT
                                           !.orphanIntervals =
                                               hist[id].orphanIntervals
                                               + removed.activeIntervals ] ]

\* lines 119-123
StopAllTelemetry ==
    /\ chargers' = [id \in DOMAIN chargers |-> StopTelemetryState(chargers[id])]
    /\ last' = Quiet
    /\ UNCHANGED <<telemetryWrapper, heartbeatTimer, ledger, calls, stops>>
    /\ Observe

\* the number of the wrapper the next setTelemetryHandler call creates
NextWrapper == IF telemetryWrapper = Null THEN 1 ELSE telemetryWrapper[1] + 1

\* lines 135-158
SetTelemetryHandler ==
    /\ NextWrapper <= MaxRegistrations
    /\ telemetryWrapper' = Some(NextWrapper)
    /\ chargers' = [id \in DOMAIN chargers |-> OnTelemetry(chargers[id], NextWrapper)]
    /\ last' = Quiet
    /\ UNCHANGED <<heartbeatTimer, ledger, calls, stops>>
    /\ Observe

\* Fault variant: the scan without its else branch (lines 88-93).
HeartbeatStatus_NeverRestores(ch, late) ==
    IF Exceeds(Now - ch.lastHeartbeat, HEARTBEAT_TIMEOUT, late)
    THEN "OFFLINE"
    ELSE ch.status

\* lines 82-93: one charger's status after the scan
HeartbeatStatus(ch, late) ==
    IF Exceeds(Now - ch.lastHeartbeat, HEARTBEAT_TIMEOUT, late)
    THEN "OFFLINE"
    ELSE IF ch.status = "OFFLINE" THEN "AVAILABLE" ELSE ch.status

\* Fault variant: a scan that ends the session of a charger it marks OFFLINE.
CheckHeartbeatStatus_EndsSession(late) ==
    /\ heartbeatTimer = 0
    /\ heartbeatTimer' = HeartbeatScanMs
    /\ chargers' = [ id \in DOMAIN chargers |->
                       LET status == HeartbeatStatus(chargers[id], late[id])
                       IN  [chargers[id] EXCEPT
                               !.status = status,
                               !.currentSessionId = IF status = "OFFLINE" THEN Null ELSE @] ]
    /\ last' = Quiet
    /\ UNCHANGED <<telemetryWrapper, ledger, calls, stops>>
    /\ Observe

\* the manager's setInterval callback (lines 12-18, 78-98)
CheckHeartbeatStatus(late) ==
    /\ heartbeatTimer = 0
    /\ heartbeatTimer' = HeartbeatScanMs
    /\ chargers' = [ id \in DOMAIN chargers |->
                       [chargers[id] EXCEPT !.status = HeartbeatStatus(chargers[id], late[id])] ]
    /\ last' = Quiet
    /\ UNCHANGED <<telemetryWrapper, ledger, calls, stops>>
    /\ Observe

----
\* Time

AgeOpt(ts, floor) == IF ts = Null THEN Null ELSE Some(Age(ts[1], floor))

\* One unit of time passes. No timer is due: a due callback runs first.
AdvanceTime ==
    /\ heartbeatTimer > 0
    /\ \A id \in DOMAIN chargers : chargers[id].telemetryInterval # Some(0)
    /\ heartbeatTimer' = heartbeatTimer - 1
    /\ chargers' =
        [ id \in DOMAIN chargers |->
            [ chargers[id] EXCEPT
                !.lastHeartbeat = Age(@, HEARTBEAT_TIMEOUT + 1),
                !.idleStartTimestamp = AgeOpt(@, IDLE_TIMEOUT_MS + 1),
                !.telemetryInterval = IF @ = Null THEN Null ELSE Some(@[1] - 1) ] ]
    /\ hist' = [ id \in ChargerIds |-> [hist[id] EXCEPT !.boundAt = AgeOpt(@, MaxAge)] ]
    /\ last' = Quiet
    /\ UNCHANGED <<telemetryWrapper, ledger, calls, stops>>

----
\* The fleet of this specification: one charger, every command but forceIdle,
\* setMode and setTelemetryHandler, and one Math.random() draw per range.
Solo == {"C1"}

Next ==
    \/ \E id \in Solo : id \notin DOMAIN chargers /\ SpawnCharger(id)
    \/ \E id \in Solo, sessionId \in SessionIds :
          calls = EmptyBag /\ StartSession(id, sessionId)
    \/ \E call \in BagToSet(calls), ioError \in BOOLEAN : DbSessionExists(call, ioError)
    \/ \E call \in BagToSet(calls), ioError \in BOOLEAN : DbInsert(call, ioError)
    \/ \E id \in Solo : StopSession(id)
    \/ \E id \in Solo : InjectFault(id)
    \/ \E id \in Solo : ResetCharger(id)
    \/ \E stop \in BagToSet(stops), ioError \in BOOLEAN : DbFinalize(stop, ioError)
    \/ \E id \in Solo : PauseTelemetry(id)
    \/ \E id \in Solo : ResumeTelemetry(id)
    \/ \E id \in Solo, late \in BOOLEAN :
          GenerateTelemetry(id, 24000, 1500, late, [c \in ChargerIds |-> 1000])
    \/ \E late \in [ChargerIds -> BOOLEAN] : CheckHeartbeatStatus(late)
    \/ AdvanceTime

Spec == Init /\ [][Next]_vars

\* The idle timeout: one charger with forceIdle, the server's one handler
\* registration (server.ts registers once at start-up), no ledger failure on
\* start, and one startSession call at a time.
NextIdle ==
    \/ \E id \in Solo : id \notin DOMAIN chargers /\ SpawnCharger(id)
    \/ telemetryWrapper = Null /\ SetTelemetryHandler
    \/ \E id \in Solo, flag \in BOOLEAN : ForceIdle(id, flag)
    \/ \E id \in Solo, sessionId \in SessionIds :
          calls = EmptyBag /\ StartSession(id, sessionId)
    \/ \E call \in BagToSet(calls) : DbSessionExists(call, FALSE)
    \/ \E call \in BagToSet(calls) : DbInsert(call, FALSE)
    \/ \E id \in Solo : StopSession(id)
    \/ \E stop \in BagToSet(stops), ioError \in BOOLEAN : DbFinalize(stop, ioError)
    \/ \E id \in Solo, late \in BOOLEAN :
          GenerateTelemetry(id, 24000, 1500, late, [c \in ChargerIds |-> 1000])
    \/ \E late \in [ChargerIds -> BOOLEAN] : CheckHeartbeatStatus(late)
    \/ AdvanceTime

SpecIdle == Init /\ [][NextIdle]_vars

\* Overlapping calls: two chargers and up to MaxCalls startSession calls suspended
\* at once, all within one timer period (no time passes, so no timer fires);
\* faults are injected, and reset is called, on one of the two chargers.
NextRace ==
    \/ \E id \in ChargerIds : id \notin DOMAIN chargers /\ SpawnCharger(id)
    \/ \E id \in ChargerIds, sessionId \in SessionIds : StartSession(id, sessionId)
    \/ \E call \in BagToSet(calls), ioError \in BOOLEAN : DbSessionExists(call, ioError)
    \/ \E call \in BagToSet(calls), ioError \in BOOLEAN : DbInsert(call, ioError)
    \/ \E id \in ChargerIds : StopSession(id)
    \/ \E id \in Solo : InjectFault(id)
    \/ \E id \in Solo : ResetCharger(id)
    \/ \E stop \in BagToSet(stops), ioError \in BOOLEAN : DbFinalize(stop, ioError)

SpecRace == Init /\ [][NextRace]_vars
\* The grid limit: two chargers spawned at start-up, each with one session id
\* of its own, the server's one handler registration (made at any time, or
\* never, as in the CLI), setMode, a user stop of C1, forceIdle switched
\* on for C2 while it is throttled, and timers that run on time; the ledger
\* does not fail.
GridSession == [id \in ChargerIds |-> IF id = "C1" THEN "S1" ELSE "S2"]
GridCurrents == {1400, 2200, 2500}
OnTime == [id \in ChargerIds |-> FALSE]
GridLimits == {[id \in ChargerIds |-> IF id = "C1" THEN 1000 ELSE 1500]}

NextGrid ==
    \/ \E id \in ChargerIds : id \notin DOMAIN chargers /\ SpawnCharger(id)
    \/ telemetryWrapper = Null /\ SetTelemetryHandler
    \/ \E id \in ChargerIds, mode \in {"slow", "fast"} : SetMode(id, mode)
    \/ \E id \in ChargerIds : calls = EmptyBag /\ StartSession(id, GridSession[id])
    \/ \E call \in BagToSet(calls) : DbSessionExists(call, FALSE)
    \/ \E call \in BagToSet(calls) : DbInsert(call, FALSE)
    \/ StopSession("C1")
    \/ /\ "C2" \in DOMAIN chargers
       /\ chargers["C2"].currentLimit # Null
       /\ ForceIdle("C2", TRUE)
    \/ \E stop \in BagToSet(stops) : DbFinalize(stop, FALSE)
    \/ \E id \in ChargerIds, rndCurrent \in GridCurrents, rndLimit \in GridLimits :
          GenerateTelemetry(id, 24000, rndCurrent, FALSE, rndLimit)
    \/ CheckHeartbeatStatus(OnTime)
    \/ DOMAIN chargers = ChargerIds /\ AdvanceTime

SpecGrid == Init /\ [][NextGrid]_vars

\* Handler registrations: two chargers spawned at any time, up to
\* MaxRegistrations calls of setTelemetryHandler, and the timers.
NextSink ==
    \/ \E id \in ChargerIds : SpawnCharger(id)
    \/ SetTelemetryHandler
    \/ \E id \in ChargerIds, rndLimit \in GridLimits :
          GenerateTelemetry(id, 24000, 2200, FALSE, rndLimit)
    \/ CheckHeartbeatStatus(OnTime)
    \/ AdvanceTime

SpecSink == Init /\ [][NextSink]_vars

\* Heartbeat expiry: one charger, one session, faults, pause and resume.
\* setInterval keeps its callbacks coming: a timer that is due fires, and time
\* passes when none is due.
HeartbeatScan == \E late \in [ChargerIds -> BOOLEAN] : CheckHeartbeatStatus(late)
TelemetryTick ==
    \E id \in Solo, late \in BOOLEAN :
        GenerateTelemetry(id, 24000, 1500, late, [c \in ChargerIds |-> 1000])

NextLive ==
    \/ \E id \in Solo : SpawnCharger(id)
    \/ \E id \in Solo : calls = EmptyBag /\ StartSession(id, "S1")
    \/ \E call \in BagToSet(calls) : DbSessionExists(call, FALSE)
    \/ \E call \in BagToSet(calls) : DbInsert(call, FALSE)
    \/ \E id \in Solo : InjectFault(id)
    \/ \E stop \in BagToSet(stops) : DbFinalize(stop, FALSE)
    \/ \E id \in Solo : PauseTelemetry(id)
    \/ \E id \in Solo : ResumeTelemetry(id)
    \/ TelemetryTick
    \/ HeartbeatScan
    \/ AdvanceTime

SpecLive ==
    /\ Init
    /\ [][NextLive]_vars
    /\ WF_vars(TelemetryTick)
    /\ WF_vars(HeartbeatScan)
    /\ WF_vars(AdvanceTime)

\* The registry: a charger spawned, deleted and spawned again at any time, the
\* server's one handler registration, sessions started and stopped, and the
\* timers, which run on time; the ledger does not fail.
Fleet == {"C1"}

NextFleet ==
    \/ \E id \in Fleet : SpawnCharger(id)
    \/ \E id \in Fleet : DeleteCharger(id)
    \/ telemetryWrapper = Null /\ SetTelemetryHandler
    \/ \E id \in Fleet, sessionId \in SessionIds :
          calls = EmptyBag /\ StartSession(id, sessionId)
    \/ \E call \in BagToSet(calls) : DbSessionExists(call, FALSE)
    \/ \E call \in BagToSet(calls) : DbInsert(call, FALSE)
    \/ \E id \in Fleet : StopSession(id)
    \/ \E stop \in BagToSet(stops) : DbFinalize(stop, FALSE)
    \/ \E id \in Fleet, rndLimit \in GridLimits :
          GenerateTelemetry(id, 24000, 2200, FALSE, rndLimit)
    \/ CheckHeartbeatStatus(OnTime)
    \/ AdvanceTime

SpecFleet == Init /\ [][NextFleet]_vars

\* The timers: one charger, the four operations on its timer and the manager's
\* stopAllTelemetry, one session started and stopped, and the callbacks, which
\* run on time; the ledger does not fail.
NextTimer ==
    \/ \E id \in Fleet : id \notin DOMAIN chargers /\ SpawnCharger(id)
    \/ \E id \in Fleet : StartTelemetry(id)
    \/ \E id \in Fleet : StopTelemetry(id)
    \/ \E id \in Fleet : PauseTelemetry(id)
    \/ \E id \in Fleet : ResumeTelemetry(id)
    \/ StopAllTelemetry
    \/ \E id \in Fleet : calls = EmptyBag /\ StartSession(id, "S1")
    \/ \E call \in BagToSet(calls) : DbSessionExists(call, FALSE)
    \/ \E call \in BagToSet(calls) : DbInsert(call, FALSE)
    \/ \E id \in Fleet : StopSession(id)
    \/ \E stop \in BagToSet(stops) : DbFinalize(stop, FALSE)
    \/ \E id \in Fleet, rndLimit \in GridLimits :
          GenerateTelemetry(id, 24000, 2200, FALSE, rndLimit)
    \/ CheckHeartbeatStatus(OnTime)
    \/ AdvanceTime

SpecTimer == Init /\ [][NextTimer]_vars

----
\* Properties of the session state machine

\* C1: whenever a charger holds a session id its status is CHARGING, after any
\* sequence of commands, pause/resume and heartbeat scans. The heartbeat scan
\* refutes it: a charger whose heartbeat is older than HEARTBEAT_TIMEOUT turns
\* OFFLINE and keeps its session id.
C1_SessionImpliesCharging ==
    \A id \in DOMAIN chargers :
        chargers[id].currentSessionId # Null => chargers[id].status = "CHARGING"

\* C2: a FAULTY charger holds no session id, also while a startSession call on
\* it is suspended at one of its awaits.
C2_FaultyHoldsNoSession ==
    \A id \in DOMAIN chargers :
        chargers[id].status = "FAULTY" => chargers[id].currentSessionId = Null

\* a charger is FAULTY while a startSession call on it waits for its INSERT
C2_Witness ==
    \E id \in DOMAIN chargers :
        /\ chargers[id].status = "FAULTY"
        /\ \E call \in BagToSet(calls) : call.id = id /\ call.pc = "insert"

\* C3: a session id held by a charger is in the ledger
C3_BoundIsReserved ==
    \A id \in DOMAIN chargers :
        chargers[id].currentSessionId # Null =>
            chargers[id].currentSessionId[1] \in DOMAIN ledger

\* C3: the step that binds a session id or turns a charger CHARGING is the
\* successful resolution of the INSERT of a startSession call on that charger,
\* and binds that call's id; issuing the reservation and the resolution of its
\* SELECT leave every charger as it was
C3_BindStep ==
    /\ \A id \in DOMAIN chargers :
          LET ch == chargers[id]
              after == chargers'[id]
              binds == /\ after.currentSessionId # Null
                       /\ after.currentSessionId # ch.currentSessionId
              starts == after.status = "CHARGING" /\ ch.status # "CHARGING"
          IN  (binds \/ starts) =>
                 \E call \in BagToSet(calls) :
                    /\ call.id = id
                    /\ DbInsert(call, FALSE)
                    /\ ~sessionExists(call.sid)
                    /\ call.sid \in DOMAIN ledger'
                    /\ after.status = "CHARGING"
                    /\ after.currentSessionId = Some(call.sid)
    /\ \A id \in ChargerIds, sessionId \in SessionIds :
          StartSession(id, sessionId) => UNCHANGED <<chargers, ledger>>
    /\ \A call \in BagToSet(calls), ioError \in BOOLEAN :
          DbSessionExists(call, ioError) => UNCHANGED <<chargers, ledger>>

\* C3: startSession binds a session id to a charger only after the ledger has
\* reserved it: a held session id is always in the ledger, and the charger's
\* status and session id change only when the reservation has succeeded.
C3_BindAfterReservation == []C3_BoundIsReserved /\ [][C3_BindStep]_vars

\* a startSession call has returned ok and its charger holds the reserved id
C3_Witness ==
    /\ last.op = "startSession"
    /\ last.ret = "OK"
    /\ last.id \in DOMAIN chargers
    /\ chargers[last.id].status = "CHARGING"
    /\ chargers[last.id].currentSessionId = last.sid
    /\ last.sid[1] \in DOMAIN ledger

\* C4: startSession on a CHARGING charger returns CHARGER_BUSY, makes no ledger
\* reservation (none written, none issued) and leaves every charger field as it was.
C4_BusyRejected ==
    [][ \A id \in DOMAIN chargers, sessionId \in SessionIds :
          (StartSession(id, sessionId) /\ chargers[id].status = "CHARGING")
          => ( /\ last' = Returned("startSession", id, Some(sessionId), "CHARGER_BUSY")
               /\ UNCHANGED <<chargers, ledger, calls, stops>> ) ]_vars

\* a call was turned down with CHARGER_BUSY while another call was suspended
C4_Witness ==
    /\ last.op = "startSession"
    /\ last.ret = "CHARGER_BUSY"
    /\ calls # EmptyBag

\* C5: a startSession call on a charger that was not CHARGING, whose session id
\* is in the ledger when the ledger answers, returns SESSION_EXISTS as a value
\* (it does not throw) and leaves the charger as it was, for every interleaving
\* of overlapping calls with that id. Two calls that both pass the SELECT refute
\* it: the second INSERT fails on the PRIMARY KEY and startSession rethrows.
C5_DuplicateReturnsSessionExists ==
    [][ \A call \in BagToSet(calls) :
          ((DbSessionExists(call, FALSE) \/ DbInsert(call, FALSE)) /\ sessionExists(call.sid))
          => ( /\ last' = Returned("startSession", call.id, Some(call.sid), "SESSION_EXISTS")
               /\ UNCHANGED chargers ) ]_vars

\* the charger whose session a pending finalization belongs to
ChargerOf(stop) == ledger[stop.sid].chargerId

\* C6 as stated: the session's finalization with FAULT has happened before the
\* status becomes FAULTY, so no charger is FAULTY while the FAULT finalization
\* of its session is still on its way to the ledger.
C6_FinalizedBeforeFaulty ==
    \A stop \in BagToSet(stops) :
        (stop.reason = "FAULT" /\ ChargerOf(stop) \in DOMAIN chargers)
        => chargers[ChargerOf(stop)].status # "FAULTY"

\* C6: injectFault on a CHARGING charger issues the finalization of the session
\* bound at call time with reason FAULT before it sets the status, and leaves
\* the charger FAULTY with no session id; the ledger is not written in that
\* step but when the detached finalization resolves, which records that reason
\* unless the ledger fails.
C6_FaultFinalizationIssued ==
    [][ /\ \A id \in DOMAIN chargers :
              (InjectFault(id) /\ chargers[id].status = "CHARGING")
              => ( /\ chargers[id].currentSessionId # Null
                   /\ stops' = stops (+)
                        SetToBag({Finalization(chargers[id].currentSessionId[1], "FAULT")})
                   /\ ledger' = ledger
                   /\ chargers'[id].status = "FAULTY"
                   /\ chargers'[id].currentSessionId = Null )
        /\ \A stop \in BagToSet(stops) :
              (DbFinalize(stop, FALSE) /\ sessionExists(stop.sid))
              => ( /\ ledger'[stop.sid].status = "STOPPED"
                   /\ ledger'[stop.sid].stop_reason = Some(stop.reason) ) ]_vars

\* a charger is FAULTY, its session's FAULT finalization is issued and the
\* ledger still shows the session as started
C6_Witness ==
    \E stop \in BagToSet(stops) :
        /\ stop.reason = "FAULT"
        /\ ChargerOf(stop) \in DOMAIN chargers
        /\ chargers[ChargerOf(stop)].status = "FAULTY"
        /\ chargers[ChargerOf(stop)].currentSessionId = Null
        /\ ledger[stop.sid].status = "STARTED"

\* C7: stopSession(reason) by status. On CHARGING the charger turns AVAILABLE,
\* loses its session id and one finalization of that id with the supplied reason
\* is issued; on AVAILABLE the charger is left as it was; and a finalization is
\* issued exactly when a session id was bound at call time (one, for that id).
C7_StopByStatus ==
    [][ \A id \in DOMAIN chargers :
          StopSession(id) =>
            LET ch == chargers[id]
                after == chargers'[id]
            IN  /\ ch.status = "CHARGING" =>
                      /\ after = [ch EXCEPT !.status = "AVAILABLE", !.currentSessionId = Null]
                      /\ ch.currentSessionId # Null
                      /\ stops' = stops (+)
                           SetToBag({Finalization(ch.currentSessionId[1], "USER_STOP")})
                /\ ch.status = "AVAILABLE" => after = ch
                /\ ch.currentSessionId = Null => stops' = stops
                /\ ch.currentSessionId # Null =>
                      \E reason \in {"USER_STOP", "FAULT_RECOVERY"} :
                          stops' = stops (+)
                              SetToBag({Finalization(ch.currentSessionId[1], reason)}) ]_vars

\* stopSession has issued the finalization of a session that was bound to a
\* charger which was not CHARGING, and the charger still holds it
C7_Witness ==
    \E id \in DOMAIN chargers :
        /\ chargers[id].status = "AVAILABLE"
        /\ chargers[id].currentSessionId # Null
        /\ Finalization(chargers[id].currentSessionId[1], "USER_STOP") \in BagToSet(stops)

----
\* Properties of the idle timeout

\* the step is a telemetry tick of charger id
Tick(id) == last'.op = "generateTelemetry" /\ last'.id = id

\* C9 as stated: a session bound with forceIdleMode on, its charger ticking
\* every intervalMs, is over 25 s after it was bound (25 s is IDLE_TIMEOUT_MS
\* and one unit of time): no such session is still bound at that age.
C9_StoppedAfter25Seconds ==
    \A id \in ChargerIds :
        hist[id].boundAt # Null => Now - hist[id].boundAt[1] < IDLE_TIMEOUT_MS + 1

\* C9: such a session is over at most two tick periods and the idle timeout
\* (40 s) after it was bound
C9_StoppedInTime ==
    \A id \in ChargerIds :
        hist[id].boundAt # Null =>
            Now - hist[id].boundAt[1] <= 2 * intervalMs + IDLE_TIMEOUT_MS

\* C9: a tick of a CHARGING charger in forceIdleMode that finds the idle timer
\* older than IDLE_TIMEOUT_MS stops the session with IDLE_TIMEOUT and leaves the
\* charger AVAILABLE with no session id; one that finds it unset or younger
\* leaves the session running
C9_TickStep ==
    \A id \in DOMAIN chargers :
        LET ch == chargers[id]
            after == chargers'[id]
            started == ch.idleStartTimestamp
        IN  (Tick(id) /\ ch.status = "CHARGING" /\ ch.forceIdleMode) =>
              /\ (started # Null /\ Now - started[1] > IDLE_TIMEOUT_MS) =>
                    /\ after.status = "AVAILABLE"
                    /\ after.currentSessionId = Null
                    /\ stops' = stops (+)
                         SetToBag({Finalization(ch.currentSessionId[1], "IDLE_TIMEOUT")})
              /\ (started = Null \/ Now - started[1] < IDLE_TIMEOUT_MS) =>
                    /\ after.status = "CHARGING"
                    /\ after.currentSessionId = ch.currentSessionId
                    /\ stops' = stops

\* C9: a charger that is CHARGING with forceIdleMode on and ticks every
\* intervalMs is stopped with reason IDLE_TIMEOUT, and is AVAILABLE with no
\* session id, by the first tick that finds the idle timer more than
\* IDLE_TIMEOUT_MS old; that tick comes at most 40 s after the session was bound.
C9_IdleSessionStopped == []C9_StoppedInTime /\ [][C9_TickStep]_vars

\* the idle timeout has stopped a session of a charger in forceIdleMode and the
\* ledger has recorded the reason
C9_Witness ==
    \E id \in DOMAIN chargers, sid \in DOMAIN ledger :
        /\ chargers[id].forceIdleMode
        /\ chargers[id].status = "AVAILABLE"
        /\ chargers[id].currentSessionId = Null
        /\ ledger[sid].chargerId = id
        /\ ledger[sid].stop_reason = Some("IDLE_TIMEOUT")

\* C10: the tick on which the idle timeout fires stops the session with
\* IDLE_TIMEOUT and delivers no record: no listener runs (so no throttling is
\* recomputed) and the heartbeat is not refreshed
C10_FireStep ==
    \A id \in DOMAIN chargers :
        LET ch == chargers[id]
            after == chargers'[id]
        IN  (Tick(id) /\ ch.status = "CHARGING" /\ after.status # "CHARGING") =>
              /\ after.status = "AVAILABLE"
              /\ after.currentSessionId = Null
              /\ stops' = stops (+)
                   SetToBag({Finalization(ch.currentSessionId[1], "IDLE_TIMEOUT")})
              /\ last'.emitted = Null
              /\ last'.delivered = << >>
              /\ after.lastHeartbeat = ch.lastHeartbeat
              /\ after.currentLimit = ch.currentLimit

\* C10: a tick that observes non-idle power while CHARGING unsets the idle timer
C10_ResetStep ==
    \A id \in DOMAIN chargers :
        (/\ Tick(id)
         /\ chargers[id].status = "CHARGING"
         /\ chargers'[id].lastPower >= IDLE_POWER_THRESHOLD)
        => chargers'[id].idleStartTimestamp = Null

----
\* Properties of throttling and of the telemetry sink

\* the sum of lastPower over the chargers in ids that are CHARGING
RECURSIVE ChargingPower(_, _)
ChargingPower(chs, ids) ==
    IF ids = {} THEN 0
    ELSE LET id == CHOOSE i \in ids : TRUE
             rest == ChargingPower(chs, ids \ {id})
         IN  IF chs[id].status = "CHARGING" THEN chs[id].lastPower + rest ELSE rest

\* what a throttling recomputation leaves: no CHARGING charger limited when the
\* CHARGING chargers draw GRID_LIMIT or less, every one limited to 10..15 A otherwise
Throttled(chs) ==
    IF ChargingPower(chs, DOMAIN chs) <= GRID_LIMIT
    THEN \A id \in DOMAIN chs :
            chs[id].status = "CHARGING" => chs[id].currentLimit = Null
    ELSE \A id \in DOMAIN chs :
            chs[id].status = "CHARGING" =>
                /\ chs[id].currentLimit # Null
                /\ chs[id].currentLimit[1] >= 1000
                /\ chs[id].currentLimit[1] <= 1500

\* C11: right after every throttling recomputation (a tick that delivered its
\* record to the coordinator's wrapper) the aggregate is the sum of lastPower
\* over the CHARGING chargers only; at or below GRID_LIMIT no CHARGING charger
\* has a currentLimit, above it every CHARGING charger has one in [10, 15] A.
C11_ThrottlingOutcome ==
    [][ \A id \in DOMAIN chargers :
          (Tick(id) /\ Len(last'.delivered) > 0) => Throttled(chargers') ]_vars

\* two CHARGING chargers at 6 kW each have both just been throttled
C11_Witness ==
    /\ last.op = "generateTelemetry"
    /\ Len(last.delivered) > 0
    /\ DOMAIN chargers = ChargerIds
    /\ \A id \in ChargerIds :
          /\ chargers[id].status = "CHARGING"
          /\ chargers[id].lastPower = 60000
          /\ chargers[id].currentLimit # Null

\* C12: every telemetry event of every charger in the registry is followed at
\* once by a throttling recomputation. A charger spawned while no handler is
\* registered has no listener, and its ticks emit without any recomputation.
C12_EveryEventRecomputes ==
    [][ \A id \in DOMAIN chargers :
          (Tick(id) /\ last'.emitted # Null) =>
              (Len(last'.delivered) > 0 /\ Throttled(chargers')) ]_vars

----
\* Properties of the heartbeat scan

\* the time since charger ch last sent a heartbeat
SinceHeartbeat(ch) == Now - ch.lastHeartbeat

\* C13: what a scan does to each charger: OFFLINE when its heartbeat is older
\* than HEARTBEAT_TIMEOUT, whatever its status was; AVAILABLE when it was
\* OFFLINE and its heartbeat is within the window
C13_ScanStep ==
    HeartbeatScan =>
        \A id \in DOMAIN chargers :
            LET ch == chargers[id]
                after == chargers'[id]
            IN  /\ SinceHeartbeat(ch) > HEARTBEAT_TIMEOUT => after.status = "OFFLINE"
                /\ (SinceHeartbeat(ch) < HEARTBEAT_TIMEOUT /\ ch.status = "OFFLINE")
                      => after.status = "AVAILABLE"
                /\ (SinceHeartbeat(ch) < HEARTBEAT_TIMEOUT /\ ch.status # "OFFLINE")
                      => after.status = ch.status

\* C13: a charger without a heartbeat for longer than the timeout is marked
\* OFFLINE by a scan, unless a tick refreshes the heartbeat first
C13_SilentGoesOffline ==
    \A id \in Solo :
        (id \in DOMAIN chargers /\ SinceHeartbeat(chargers[id]) > HEARTBEAT_TIMEOUT)
        ~> (/\ id \in DOMAIN chargers
            /\ \/ chargers[id].status = "OFFLINE"
               \/ SinceHeartbeat(chargers[id]) <= HEARTBEAT_TIMEOUT)

\* C13: an OFFLINE charger whose ticks have resumed (its heartbeat is fresh)
\* leaves OFFLINE: the next scan marks it AVAILABLE, unless a command
\* (startSession resuming, injectFault) has set its status first
C13_ResumedComesBack ==
    \A id \in Solo :
        (/\ id \in DOMAIN chargers
         /\ chargers[id].status = "OFFLINE"
         /\ SinceHeartbeat(chargers[id]) = 0)
        ~> (id \in DOMAIN chargers /\ chargers[id].status # "OFFLINE")

C14_ScanChangesStatusOnly ==
    [][ HeartbeatScan =>
          /\ DOMAIN chargers' = DOMAIN chargers
          /\ \A id \in DOMAIN chargers :
                chargers'[id] = [chargers[id] EXCEPT !.status = chargers'[id].status]
          /\ UNCHANGED <<stops, ledger, calls>> ]_vars

\* a scan has marked OFFLINE a throttle-free charger with a session bound and
\* energy on its meter, and no finalization is in flight
C14_Witness ==
    \E id \in DOMAIN chargers :
        /\ chargers[id].status = "OFFLINE"
        /\ chargers[id].currentSessionId # Null
        /\ chargers[id].meterKWh > 0
        /\ chargers[id].lastPower > 0
        /\ stops = EmptyBag
        /\ heartbeatTimer = HeartbeatScanMs

----
\* Properties of the telemetry sink, the meter, the simulated current and reset

\* C15: once a handler is registered, each telemetry event of each charger
\* invokes only the most recently registered wrapper, once, and so runs one
\* throttling recomputation, whatever registrations and spawns came before.
\* onTelemetry only ever appends: a charger that was there at two
\* registrations keeps both wrappers, and each event runs both.
C15_OnlyLatestHandler ==
    [][ \A id \in DOMAIN chargers :
          (Tick(id) /\ last'.emitted # Null /\ telemetryWrapper # Null) =>
              last'.delivered = <<telemetryWrapper[1]>> ]_vars

\* C16: a charger's meterKWh is never negative
C16_MeterNotNegative ==
    \A id \in DOMAIN chargers : chargers[id].meterKWh >= 0

\* C16: no step lowers a charger's meterKWh
C16_MeterStep ==
    \A id \in DOMAIN chargers : chargers'[id].meterKWh >= chargers[id].meterKWh

\* C16: for each charger meterKWh never decreases and is never negative, over
\* ticks, commands, throttle changes and heartbeat scans.
C16_MeterMonotonic == []C16_MeterNotNegative /\ [][C16_MeterStep]_vars

\* a throttled charger has metered a tick at less power than the tick before
C16_Witness ==
    \E id \in DOMAIN chargers :
        /\ last.op = "generateTelemetry"
        /\ last.id = id
        /\ chargers[id].status = "CHARGING"
        /\ chargers[id].lastPower > 0
        /\ chargers[id].meterKWh > RoundDiv(chargers[id].lastPower * intervalMs * 5, 36)

\* C17: a tick of a charger that is not CHARGING, or is CHARGING in
\* forceIdleMode, simulates no current: lastPower becomes 0 and meterKWh stays
\* as it was, whatever currentLimit and chargingMode are.
C17_NoCurrentUnlessCharging ==
    [][ \A id \in DOMAIN chargers :
          (Tick(id) /\ (chargers[id].status # "CHARGING" \/ chargers[id].forceIdleMode)) =>
              /\ chargers'[id].lastPower = 0
              /\ chargers'[id].meterKWh = chargers[id].meterKWh ]_vars

\* a charger that was stopped while throttled, and still holds its
\* currentLimit, has ticked
C17_Witness ==
    \E id \in DOMAIN chargers :
        /\ last.op = "generateTelemetry"
        /\ last.id = id
        /\ chargers[id].status # "CHARGING"
        /\ chargers[id].currentLimit # Null
        /\ chargers[id].meterKWh > 0
        /\ chargers[id].lastPower = 0

\* the upper end of the unthrottled range of a mode
ModeMax(mode) == CHOOSE c \in ModeCurrents(mode) : \A d \in ModeCurrents(mode) : d <= c

\* C18: on a tick of a CHARGING charger with a currentLimit and forceIdleMode
\* off, the simulated current is currentLimit (the power recorded is that of
\* currentLimit at the tick's voltage) and is no greater than the upper end of
\* the range of the charger's chargingMode. The limit is drawn from [10, 15] A
\* whatever the mode, and SLOW ends at 14 A.
C18_ThrottleCaps ==
    [][ \A id \in DOMAIN chargers :
          LET ch == chargers[id]
          IN  (/\ Tick(id)
               /\ ch.status = "CHARGING"
               /\ ch.currentLimit # Null
               /\ ~ch.forceIdleMode) =>
                  /\ \E voltage \in Voltages :
                        chargers'[id].lastPower = PowerOf(voltage, ch.currentLimit[1])
                  /\ ch.currentLimit[1] <= ModeMax(ch.chargingMode) ]_vars

\* C19: reset() on a charger that is not FAULTY changes no field of it; on a
\* FAULTY charger it sets status AVAILABLE and currentSessionId null (and
\* nothing else).
C19_ResetOnlyWhenFaulty ==
    [][ \A id \in DOMAIN chargers :
          ResetCharger(id) =>
              chargers'[id] =
                  IF chargers[id].status = "FAULTY"
                  THEN [chargers[id] EXCEPT !.status = "AVAILABLE", !.currentSessionId = Null]
                  ELSE chargers[id] ]_vars

\* reset has returned on a charger whose session a fault ended, and the
\* charger is AVAILABLE
C19_Witness ==
    /\ last.op = "reset"
    /\ last.ret = "OK"
    /\ chargers[last.id].status = "AVAILABLE"
    /\ chargers[last.id].currentSessionId = Null
    /\ \E sid \in DOMAIN ledger :
          /\ ledger[sid].chargerId = last.id
          /\ ledger[sid].stop_reason = Some("FAULT")

\* C20: unthrottle and throttleCurrent are idempotent from any charger state:
\* twice in a row leaves what once leaves. throttleCurrent draws a new random
\* limit on every call, so the second call may leave another limit.
C20_ThrottleIdempotent ==
    \A id \in DOMAIN chargers :
        /\ Unthrottle(Unthrottle(chargers[id])) = Unthrottle(chargers[id])
        /\ \A first \in ThrottleLimits, second \in ThrottleLimits :
              ThrottleCurrent(ThrottleCurrent(chargers[id], first), second)
                  = ThrottleCurrent(chargers[id], first)

----
\* Properties of the registry and the timers

\* how many times listener w is subscribed to charger ch
Subscriptions(ch, w) ==
    Cardinality({i \in 1..Len(ch.telemetryListeners) : ch.telemetryListeners[i] = w})

\* C21: spawnCharger(id) for an id already in the registry leaves the registry as
\* it was: the same entries, and the charger's status, session id, meter, timer
\* and listener subscriptions unchanged. For a new id it adds one entry, an
\* AVAILABLE charger with meterKWh 0, no session and one running timer, that is
\* subscribed exactly once to the sink if one is registered, and it leaves the
\* other entries alone.
C21_SpawnIdempotent ==
    [][ \A id \in ChargerIds :
          (last'.op = "spawnCharger" /\ last'.id = id)
          => IF id \in DOMAIN chargers
             THEN /\ chargers' = chargers
                  /\ last'.ret = "EXISTS"
             ELSE /\ DOMAIN chargers' = DOMAIN chargers \cup {id}
                  /\ \A i \in DOMAIN chargers : chargers'[i] = chargers[i]
                  /\ chargers'[id].status = "AVAILABLE"
                  /\ chargers'[id].meterKWh = 0
                  /\ chargers'[id].currentSessionId = Null
                  /\ chargers'[id].activeIntervals = 1
                  /\ IF telemetryWrapper = Null
                     THEN chargers'[id].telemetryListeners = << >>
                     ELSE /\ Subscriptions(chargers'[id], telemetryWrapper[1]) = 1
                          /\ Len(chargers'[id].telemetryListeners) = 1
                  /\ UNCHANGED telemetryWrapper ]_vars

\* spawnCharger has just returned the existing charger, which is charging, has
\* metered energy and is subscribed to the sink
C21_Witness ==
    /\ last.op = "spawnCharger"
    /\ last.ret = "EXISTS"
    /\ last.id \in DOMAIN chargers
    /\ chargers[last.id].status = "CHARGING"
    /\ chargers[last.id].currentSessionId # Null
    /\ chargers[last.id].meterKWh > 0
    /\ telemetryWrapper # Null
    /\ Subscriptions(chargers[last.id], telemetryWrapper[1]) = 1

\* a command addressed to charger id is issued
CommandOn(id) ==
    \/ \E sessionId \in SessionIds : StartSession(id, sessionId)
    \/ StopSession(id)
    \/ InjectFault(id)
    \/ ResetCharger(id)
    \/ PauseTelemetry(id)
    \/ ResumeTelemetry(id)
    \/ \E mode \in ModeInputs : SetMode(id, mode)
    \/ \E flag \in BOOLEAN : ForceIdle(id, flag)

C22_Step ==
    \A id \in ChargerIds :
        /\ (last'.op = "deleteCharger" /\ last'.id = id)
           => IF id \in DOMAIN chargers
              THEN /\ last'.ret = "TRUE"
                   /\ DOMAIN chargers' = DOMAIN chargers \ {id}
                   /\ \A i \in DOMAIN chargers' : chargers'[i] = chargers[i]
              ELSE /\ last'.ret = "FALSE"
                   /\ UNCHANGED <<chargers, telemetryWrapper, heartbeatTimer,
                                  ledger, calls, stops>>
        /\ id \notin DOMAIN chargers
           => /\ ~Tick(id)
              /\ CommandOn(id)
                 => /\ last'.ret = "NOT_FOUND"
                    /\ UNCHANGED <<chargers, ledger, calls, stops>>
              /\ id \in DOMAIN chargers'
                 => /\ chargers'[id].status = "AVAILABLE"
                    /\ chargers'[id].meterKWh = 0
                    /\ chargers'[id].currentSessionId = Null

\* C22: deleteCharger(id) on a charger of the registry returns true and removes
\* the entry, leaving no interval timer live on the removed object, so that it
\* never ticks again; while id is absent no tick of id happens and every command
\* on id returns the not-found result and changes nothing; the charger a later
\* spawnCharger(id) puts there is AVAILABLE with meterKWh 0 and no session.
\* deleteCharger on an unknown id returns false and changes nothing.
C22_DeleteRemoves ==
    /\ [][C22_Step]_vars
    /\ [](\A id \in ChargerIds : hist[id].orphanIntervals = 0)

\* a charger deleted with a started session has been spawned again
C22_Witness ==
    /\ last.op = "spawnCharger"
    /\ last.ret = "SPAWNED"
    /\ \E sid \in DOMAIN ledger :
          /\ ledger[sid].chargerId = last.id
          /\ ledger[sid].status = "STARTED"
    /\ chargers[last.id].meterKWh = 0

C23_TimerStep ==
    \A id \in DOMAIN chargers :
        LET ch == chargers[id]
        IN  /\ (StartTelemetry(id) \/ ResumeTelemetry(id)) /\ ch.telemetryInterval # Null
               => chargers' = chargers
            /\ (StopTelemetry(id) \/ PauseTelemetry(id)) /\ ch.telemetryInterval = Null
               => chargers' = chargers
            /\ (PauseTelemetry(id) \/ ResumeTelemetry(id))
               => /\ chargers'[id].status = ch.status
                  /\ chargers'[id].currentSessionId = ch.currentSessionId
                  /\ chargers'[id].meterKWh = ch.meterKWh
                  /\ chargers'[id].currentLimit = ch.currentLimit

\* C23: a charger never has more than one live interval timer, and it has one
\* exactly when it holds a timer handle; startTelemetry and resumeTelemetry on a
\* running timer, and stopTelemetry and pauseTelemetry on a stopped one, change
\* nothing; pauseTelemetry and resumeTelemetry keep status, currentSessionId,
\* meterKWh and currentLimit.
C23_OneTimer ==
    /\ [][C23_TimerStep]_vars
    /\ [](\A id \in DOMAIN chargers :
            chargers[id].activeIntervals
                = IF chargers[id].telemetryInterval = Null THEN 0 ELSE 1)

\* a charging charger whose timer runs again after a pause: it is a full period
\* from its next tick and more than a period from its last heartbeat
C23_Witness ==
    \E id \in DOMAIN chargers :
        /\ chargers[id].status = "CHARGING"
        /\ chargers[id].meterKWh > 0
        /\ chargers[id].telemetryInterval = Some(intervalMs)
        /\ chargers[id].activeIntervals = 1
        /\ Now - chargers[id].lastHeartbeat > intervalMs

----
\* Properties of startSession and the ledger under failures and races

C24_Thrown(call) ==
    /\ last' = Returned("startSession", call.id, Some(call.sid), "THROWN")
    /\ UNCHANGED <<chargers, ledger>>

\* C24: when the reservation of startSession fails with an error that does not
\* carry the code SESSION_EXISTS (an I/O failure of the SELECT or of the INSERT,
\* or the INSERT rejected by the PRIMARY KEY) the call throws instead of
\* returning a result, and neither that step nor the step that issued the call
\* changes any charger or the ledger.
C24_FailurePropagates ==
    [][ /\ \A call \in BagToSet(calls) :
              /\ (DbSessionExists(call, TRUE) \/ DbInsert(call, TRUE)) => C24_Thrown(call)
              /\ (DbInsert(call, FALSE) /\ sessionExists(call.sid)) => C24_Thrown(call)
        /\ \A id \in ChargerIds, sessionId \in SessionIds :
              StartSession(id, sessionId) => UNCHANGED <<chargers, ledger>> ]_vars

\* a startSession call for a session id the ledger does not hold has thrown
C24_Witness ==
    /\ last.op = "startSession"
    /\ last.ret = "THROWN"
    /\ last.id \in DOMAIN chargers
    /\ last.sid[1] \notin DOMAIN ledger

\* this step issues the finalization stop
Issued(stop) == CopiesIn(stop, stops') > CopiesIn(stop, stops)

\* C25: a stop finalization is issued at most once per session id; in
\* particular none is issued for a session the ledger already holds as STOPPED.
\* stopSession on an OFFLINE charger refutes it: it issues the finalization and
\* keeps the session id, so the next stopSession issues it again.
C25_FinalizedOnce ==
    [][ \A stop \in BagToSet(stops') :
          Issued(stop)
          => ~(stop.sid \in DOMAIN ledger /\ ledger[stop.sid].status = "STOPPED") ]_vars

\* C26: every session whose startSession returned ok (the sessions of the
\* ledger) is the currentSessionId of a charger of the registry, or has had its
\* stop finalization issued (it is in flight, or has marked the row STOPPED).
\* deleteCharger on a charging charger refutes it.
C26_NoSessionLost ==
    \A sid \in DOMAIN ledger :
        \/ \E id \in DOMAIN chargers : chargers[id].currentSessionId = Some(sid)
        \/ \E stop \in BagToSet(stops) : stop.sid = sid
        \/ ledger[sid].status = "STOPPED"

\* C27: of two startSession calls that overlap on one charger, at most one
\* returns ok: no call returns ok on a charger that another call has made
\* CHARGING since the first was issued. The busy check is made only before the
\* await, so both calls pass it and both return ok.
C27_OneOverlappingStartWins ==
    [][ (last'.op = "startSession" /\ last'.ret = "OK")
        => chargers[last'.id].status # "CHARGING" ]_vars

\* C28: no session id is the currentSessionId of two chargers at the same time.
C28_SessionOnOneCharger ==
    \A a \in DOMAIN chargers, b \in DOMAIN chargers :
        (a # b /\ chargers[a].currentSessionId # Null)
        => chargers[a].currentSessionId # chargers[b].currentSessionId

\* a startSession call has thrown for a session id that another charger holds:
\* the loser of a race for one session id
C28_Witness ==
    /\ last.op = "startSession"
    /\ last.ret = "THROWN"
    /\ \E id \in DOMAIN chargers :
          /\ id # last.id
          /\ chargers[id].currentSessionId = last.sid
          /\ chargers[id].status = "CHARGING"

\* C29: idleStartTimestamp is null whenever the status is not CHARGING.
\* stopSession refutes it: it leaves idleStartTimestamp as the idle ticks of the
\* stopped session set it.
C29_IdleStartOnlyWhileCharging ==
    \A id \in DOMAIN chargers :
        chargers[id].status # "CHARGING" => chargers[id].idleStartTimestamp = Null

\* C30: a FAULTY charger leaves FAULTY only by reset() or stopSession().
\* startSession refutes it (its busy check lets a FAULTY charger through), and
\* so does the heartbeat scan (a silent FAULTY charger is marked OFFLINE).
C30_FaultyUntilReset ==
    [][ \A id \in DOMAIN chargers :
          (chargers[id].status = "FAULTY" /\ chargers'[id].status # "FAULTY")
          => (ResetCharger(id) \/ StopSession(id)) ]_vars

\* C31: currentLimit is null whenever the status is not CHARGING, so that a
\* throttle applied during one session is not carried into the next.
\* stopSession refutes it: it leaves currentLimit set, and applyThrottling
\* clears limits of CHARGING chargers only.
C31_LimitOnlyWhileCharging ==
    \A id \in DOMAIN chargers :
        chargers[id].status # "CHARGING" => chargers[id].currentLimit = Null

====
